---------------------------- MODULE Spec2Model ----------------------------
(***************************************************************************)
(* A model of the MCP time server (src/mcp_time_server/main.py): the       *)
(* process-wide timezone setting, the pattern translator                   *)
(* (format_datetime, parse_datetime) and the tool dispatcher               *)
(* (handle_call_tool).                                                     *)
(*                                                                         *)
(* Representation.                                                         *)
(*  - A Python str is a sequence of one-character strings.  The module is  *)
(*    ASCII, so each Chinese character of the source's literals is written *)
(*    as one element holding its pinyin ("cuo", "wu" for the two           *)
(*    characters of the error prefix).                                     *)
(*  - A Python int that may exceed 32 bits (a millisecond timestamp) is a  *)
(*    record [q, r] standing for 1000 * q + r with 0 <= r < 1000.          *)
(*  - A Python float holding a count of seconds is a record [sec, micro]   *)
(*    standing for the double nearest to sec + micro / 10^6.               *)
(*  - A datetime is a record of its fields; an aware one also carries      *)
(*    utcoffset (seconds).                                                 *)
(***************************************************************************)
EXTENDS Integers, Sequences, FiniteSets, TLC

VARIABLES pc, SERVER_TIMEZONE, tzWrites, call

vars == <<pc, SERVER_TIMEZONE, tzWrites, call>>

---------------------------------------------------------------------------
(* str helpers *)

Str1(c) == <<c>>

DigitChars == <<"0", "1", "2", "3", "4", "5", "6", "7", "8", "9">>

IsDigit(c) == \E i \in 1..10 : DigitChars[i] = c

DigitVal(c) == (CHOOSE i \in 1..10 : DigitChars[i] = c) - 1

\* s.startswith(p)
StartsWith(s, p) == Len(s) >= Len(p) /\ SubSeq(s, 1, Len(p)) = p

\* whether sub occurs in s at (1-based) position i
OccursAt(s, sub, i) ==
    i >= 1 /\ i + Len(sub) - 1 <= Len(s) /\ SubSeq(s, i, i + Len(sub) - 1) = sub

\* sub in s
Contains(s, sub) == \E i \in 1..(Len(s) + 1) : OccursAt(s, sub, i)

\* s.rfind(c) as a 0-based index, -1 when absent
RFind(s, c) ==
    IF \E i \in 1..Len(s) : s[i] = c
    THEN (CHOOSE i \in 1..Len(s) : s[i] = c /\ \A j \in (i + 1)..Len(s) : s[j] # c) - 1
    ELSE -1

\* s[:n] for n >= 0
Prefix(s, n) == SubSeq(s, 1, IF n < Len(s) THEN n ELSE Len(s))

\* s.replace(old, new): the non-overlapping occurrences, left to right
RECURSIVE Replace(_, _, _)
Replace(s, old, new) ==
    IF Len(s) = 0 THEN <<>>
    ELSE IF OccursAt(s, old, 1)
         THEN new \o Replace(SubSeq(s, Len(old) + 1, Len(s)), old, new)
         ELSE <<s[1]>> \o Replace(Tail(s), old, new)

\* s.split(c)
RECURSIVE Split(_, _)
Split(s, c) ==
    IF \A i \in 1..Len(s) : s[i] # c THEN <<s>>
    ELSE LET i == CHOOSE k \in 1..Len(s) : s[k] = c /\ \A j \in 1..(k - 1) : s[j] # c
         IN  <<SubSeq(s, 1, i - 1)>> \o Split(SubSeq(s, i + 1, Len(s)), c)

\* s.ljust(n, c)
RECURSIVE LJust(_, _, _)
LJust(s, n, c) == IF Len(s) >= n THEN s ELSE LJust(s \o <<c>>, n, c)

\* str(n) for an int n >= 0
RECURSIVE NatToStr(_)
NatToStr(n) ==
    IF n < 10 THEN <<DigitChars[n + 1]>>
    ELSE NatToStr(n \div 10) \o <<DigitChars[(n % 10) + 1]>>

\* str(n) for an int n
IntToStr(n) == IF n < 0 THEN <<"-">> \o NatToStr(-n) ELSE NatToStr(n)

\* "%0<w>d" % n for n >= 0
RECURSIVE ZeroPad(_, _)
ZeroPad(n, w) ==
    IF w <= 1 /\ n < 10 THEN <<DigitChars[n + 1]>>
    ELSE ZeroPad(n \div 10, w - 1) \o <<DigitChars[(n % 10) + 1]>>

\* int(s) for a non-empty run of digits s
RECURSIVE DigitsVal(_)
DigitsVal(s) ==
    IF Len(s) = 0 THEN 0
    ELSE 10 * DigitsVal(SubSeq(s, 1, Len(s) - 1)) + DigitVal(s[Len(s)])

---------------------------------------------------------------------------
(* literals of the source *)

DEFAULT_FORMAT ==
    <<"y", "y", "y", "y", "-", "M", "M", "-", "d", "d", " ",
      "H", "H", ":", "m", "m", ":", "s", "s", ".", "S", "S", "S">>

\* the prefix of every except branch's text (two Chinese characters, ": ")
ErrorPrefix == <<"cuo", "wu", ":", " ">>

\* the prefix of a conversion's text (four Chinese characters, ": ")
ResultPrefix == <<"zhuan", "huan", "jie", "guo", ":", " ">>

\* the first line of get_current_time's text
CurrentTimePrefix == <<"dang", "qian", "shi", "jian", "xin", "xi", ":", "\n">>

\* the prefix of the unknown-tool text (four Chinese characters, ": ")
UnknownToolPrefix == <<"wei", "zhi", "gong", "ju", ":", " ">>

DefaultTimezone == "Asia/Shanghai"

---------------------------------------------------------------------------
(* the timezone database (pytz) as far as the model draws from it           *)

\* identifiers pytz.timezone accepts
TimezoneDatabase == {"Asia/Shanghai", "Asia/Tokyo", "UTC"}

\* identifiers pytz.timezone raises UnknownTimeZoneError for
UnknownIdentifiers == {"Not/AZone", "Shanghai"}

\* Asia/Shanghai's daylight-saving periods, [from, to) in epoch seconds
\* (1986 to 1991; there is no other offset change between 1952 and 2037)
ShanghaiDst ==
    { <<515527200, 527014800>>, <<545162400, 558464400>>,
      <<577216800, 589914000>>, <<608666400, 621968400>>,
      <<640116000, 653418000>>, <<671565600, 684867600>> }

\* tz.utcoffset at the instant utc (epoch seconds), in seconds
UtcOffset(tz, utc) ==
    CASE tz = "Asia/Shanghai" ->
            IF \E p \in ShanghaiDst : p[1] <= utc /\ utc < p[2] THEN 32400 ELSE 28800
      [] tz = "Asia/Tokyo" -> 32400
      [] OTHER -> 0

\* the offset of tz's standard time, and every offset tz uses
StdOffset(tz) ==
    CASE tz = "Asia/Shanghai" -> 28800 [] tz = "Asia/Tokyo" -> 32400 [] OTHER -> 0

ZoneOffsets(tz) == IF tz = "Asia/Shanghai" THEN {28800, 32400} ELSE {StdOffset(tz)}

---------------------------------------------------------------------------
(* datetime: the proleptic Gregorian calendar                               *)

\* days since 1970-01-01 of the civil date y-m-d
DaysFromCivil(y, m, d) ==
    LET yy  == IF m <= 2 THEN y - 1 ELSE y
        era == yy \div 400
        yoe == yy - era * 400
        mp  == IF m > 2 THEN m - 3 ELSE m + 9
        doy == (153 * mp + 2) \div 5 + d - 1
        doe == yoe * 365 + yoe \div 4 - yoe \div 100 + doy
    IN  era * 146097 + doe - 719468

\* the civil date <<y, m, d>> of a count of days since 1970-01-01
CivilFromDays(days) ==
    LET z   == days + 719468
        era == z \div 146097
        doe == z - era * 146097
        yoe == (doe - doe \div 1460 + doe \div 36524 - doe \div 146096) \div 365
        doy == doe - (365 * yoe + yoe \div 4 - yoe \div 100)
        mp  == (5 * doy + 2) \div 153
        d   == doy - (153 * mp + 2) \div 5 + 1
        m   == IF mp < 10 THEN mp + 3 ELSE mp - 9
        y   == yoe + era * 400 + (IF m <= 2 THEN 1 ELSE 0)
    IN  <<y, m, d>>

IsLeap(y) == y % 4 = 0 /\ (y % 100 # 0 \/ y % 400 = 0)

DaysInMonth(y, m) ==
    IF m = 2 THEN (IF IsLeap(y) THEN 29 ELSE 28)
    ELSE IF m \in {4, 6, 9, 11} THEN 30 ELSE 31

\* the naive datetime whose fields read local (seconds since 1970-01-01
\* 00:00:00 on the wall clock) and micro
NaiveFromLocal(local, micro) ==
    LET c   == CivilFromDays(local \div 86400)
        sod == local % 86400
    IN  [year |-> c[1], month |-> c[2], day |-> c[3],
         hour |-> sod \div 3600, minute |-> (sod % 3600) \div 60,
         second |-> sod % 60, microsecond |-> micro]

\* the wall-clock seconds since 1970-01-01 00:00:00 of a datetime's fields
LocalSeconds(dt) ==
    DaysFromCivil(dt.year, dt.month, dt.day) * 86400
        + dt.hour * 3600 + dt.minute * 60 + dt.second

\* datetime.fromtimestamp(sec + micro / 10^6, tz=tz): an aware datetime
FromTimestamp(sec, micro, tz) ==
    LET off == UtcOffset(tz, sec)
    IN  [utcoffset |-> off] @@ NaiveFromLocal(sec + off, micro)

\* tz.localize(dt) (is_dst=False): the aware datetime with dt's fields.  A
\* wall-clock time that occurs twice is read as standard time; one that never
\* occurs (the clocks skipped it) keeps the offset in force six hours before.
RECURSIVE LocalizeOffset(_, _)
LocalizeOffset(tz, local) ==
    LET cands == {o \in ZoneOffsets(tz) : UtcOffset(tz, local - o) = o}
    IN  IF Cardinality(cands) = 1 THEN CHOOSE o \in cands : TRUE
        ELSE IF Cardinality(cands) = 0 THEN LocalizeOffset(tz, local - 21600)
        ELSE StdOffset(tz)

Localize(tz, dt) == [utcoffset |-> LocalizeOffset(tz, LocalSeconds(dt))] @@ dt

\* dt.timestamp() of an aware datetime: the float [sec, micro]
Timestamp(dt) == [sec |-> LocalSeconds(dt) - dt.utcoffset, micro |-> dt.microsecond]

---------------------------------------------------------------------------
(* Python ints wider than 32 bits, and the floats of the timestamp path     *)

Wide(q, r) == [q |-> q, r |-> r]

WideIsNeg(w) == w.q < 0

\* -w
WideNeg(w) == IF w.r = 0 THEN Wide(-w.q, 0) ELSE Wide(-w.q - 1, 1000 - w.r)

WideAbs(w) == IF WideIsNeg(w) THEN WideNeg(w) ELSE w

WideSucc(w) == IF w.r = 999 THEN Wide(w.q + 1, 0) ELSE Wide(w.q, w.r + 1)

WidePred(w) == IF w.r = 0 THEN Wide(w.q - 1, 999) ELSE Wide(w.q, w.r - 1)

WideLess(a, b) == a.q < b.q \/ (a.q = b.q /\ a.r < b.r)

\* str(w)
WideToStr(w) ==
    LET a == WideAbs(w)
        digits == IF a.q = 0 THEN NatToStr(a.r) ELSE NatToStr(a.q) \o ZeroPad(a.r, 3)
    IN  IF WideIsNeg(w) THEN <<"-">> \o digits ELSE digits

\* 2^n mod 1000
RECURSIVE Pow2Mod1000(_)
Pow2Mod1000(n) == IF n = 0 THEN 1 ELSE (2 * Pow2Mod1000(n - 1)) % 1000

\* n.bit_length() for an int 0 < n < 2^31
BitLength32(n) ==
    IF n >= 2^30 THEN 31
    ELSE CHOOSE b \in 1..30 : n < 2^b /\ (b = 1 \/ n >= 2^(b - 1))

\* a // 1024 for a wide int a >= 0: with a.q = 128 * u + v, a is
\* 1024 * 125 * u + (1000 * v + a.r)
WideDiv1024(a) ==
    125 * (a.q \div 128) + (1000 * (a.q % 128) + a.r) \div 1024

\* a.bit_length() for a wide int a > 0
BitLength(a) ==
    IF WideDiv1024(a) = 0 THEN BitLength32(1000 * a.q + a.r)
    ELSE 10 + BitLength32(WideDiv1024(a))

\* Whether the double product (k / 1000) * 1000 falls below k for the integer
\* a = |k| > 0.  With L = a.bit_length(), the quotient a / 1000 is rounded to
\* 53 bits: its error, times 1000, is d / 2^s where s makes a * 2^s / 1000 a
\* 53-bit number and d = -r or 1000 - r for r = a * 2^s mod 1000.  The
\* product a + d / 2^s is then rounded to a's own 53 bits, whose last place is
\* 2^(L - 53): when a >= 1000 * 2^(L - 10) (s = 62 - L) that is 512 / 2^s,
\* and the product rounds below a exactly when d < -256; otherwise it is
\* 1024 / 2^s and |d| <= 500 always rounds back to a.
ProductBelow(a) ==
    LET L   == BitLength(a)
        top == IF L >= 10 THEN L <= 40 /\ a.q >= 2^(L - 10)
               ELSE a.r * 2^(10 - L) >= 1000
        r   == (a.r * Pow2Mod1000(62 - L)) % 1000
    IN  top /\ 256 < r /\ r < 500

\* int(timestamp * 1000) for the float timestamp = [sec, micro]: the double
\* product, truncated toward zero
IntOfTimes1000(ts) ==
    LET fl == Wide(ts.sec, ts.micro \div 1000)   \* floor of the exact product
    IN  IF ts.micro % 1000 # 0
        THEN (IF WideIsNeg(fl) THEN WideSucc(fl) ELSE fl)
        ELSE IF fl = Wide(0, 0) THEN fl
        ELSE IF ProductBelow(WideAbs(fl))
             THEN (IF WideIsNeg(fl) THEN WideSucc(fl) ELSE WidePred(fl))
             ELSE fl

\* the digits of micro / 10^6 after the point, as repr prints them
RECURSIVE StripZeros(_)
StripZeros(s) ==
    IF Len(s) > 1 /\ s[Len(s)] = "0" THEN StripZeros(SubSeq(s, 1, Len(s) - 1)) ELSE s

\* repr of the float [sec, micro] (f"{timestamp}")
FloatRepr(ts) ==
    IF ts.sec >= 0
    THEN NatToStr(ts.sec) \o <<".">> \o StripZeros(ZeroPad(ts.micro, 6))
    ELSE IF ts.micro = 0
         THEN <<"-">> \o NatToStr(-ts.sec) \o <<".", "0">>
         ELSE <<"-">> \o NatToStr(-ts.sec - 1) \o <<".">>
                  \o StripZeros(ZeroPad(1000000 - ts.micro, 6))

---------------------------------------------------------------------------
(* outcomes: a value, or a raised exception carrying str(e)                 *)

Ok(v) == [ok |-> TRUE, val |-> v]

Raise(msg) == [ok |-> FALSE, exc |-> msg]

---------------------------------------------------------------------------
(* the pattern translator                                                   *)

\* format_mapping, in the dict's order
format_mapping ==
    << <<<<"y", "y", "y", "y">>, <<"%", "Y">>>>,
       <<<<"M", "M">>, <<"%", "m">>>>,
       <<<<"d", "d">>, <<"%", "d">>>>,
       <<<<"H", "H">>, <<"%", "H">>>>,
       <<<<"m", "m">>, <<"%", "M">>>>,
       <<<<"s", "s">>, <<"%", "S">>>>,
       <<<<"S", "S", "S">>, <<"%", "f">>>> >>

\* the loop over format_mapping.items(), from entry i on
RECURSIVE ReplaceFrom(_, _)
ReplaceFrom(python_format, i) ==
    IF i > Len(format_mapping) THEN python_format
    ELSE ReplaceFrom(Replace(python_format, format_mapping[i][1], format_mapping[i][2]),
                     i + 1)

\* python_format: format_str with every token replaced by its directive
PythonFormat(format_str) == ReplaceFrom(format_str, 1)

\* dt.strftime(python_format): %Y %m %d %H %M %S %f and %%; any other
\* character, and a % that starts none of these, is copied
RECURSIVE Strftime(_, _)
Strftime(dt, fmt) ==
    IF Len(fmt) = 0 THEN <<>>
    ELSE IF fmt[1] = "%" /\ Len(fmt) >= 2
              /\ fmt[2] \in {"Y", "m", "d", "H", "M", "S", "f", "%"}
         THEN (CASE fmt[2] = "Y" -> NatToStr(dt.year)
                 [] fmt[2] = "m" -> ZeroPad(dt.month, 2)
                 [] fmt[2] = "d" -> ZeroPad(dt.day, 2)
                 [] fmt[2] = "H" -> ZeroPad(dt.hour, 2)
                 [] fmt[2] = "M" -> ZeroPad(dt.minute, 2)
                 [] fmt[2] = "S" -> ZeroPad(dt.second, 2)
                 [] fmt[2] = "f" -> ZeroPad(dt.microsecond, 6)
                 [] OTHER -> <<"%">>)
              \o Strftime(dt, SubSeq(fmt, 3, Len(fmt)))
         ELSE <<fmt[1]>> \o Strftime(dt, Tail(fmt))

SSS == <<"S", "S", "S">>

\* a plausible slip: the fraction rounded to milliseconds instead of cut
format_datetime_rounded(dt, format_str) ==
    LET ms == (dt.microsecond + 500) \div 1000
        formatted == Strftime([dt EXCEPT !.microsecond = (ms % 1000) * 1000],
                              PythonFormat(format_str))
    IN  IF Contains(format_str, SSS) /\ Contains(formatted, <<".">>)
        THEN Prefix(formatted, RFind(formatted, ".") + 4)
        ELSE formatted

\* format_datetime(dt, format_str)
format_datetime(dt, format_str) ==
    LET python_format == PythonFormat(format_str)
        formatted == Strftime(dt, python_format)
    IN  IF Contains(format_str, SSS)
        THEN (IF Contains(formatted, <<".">>)
              THEN Prefix(formatted, RFind(formatted, ".") + 4)
              ELSE formatted)
        ELSE formatted

\* the widest run of digits a numeric directive takes at the head of s: two
\* digits when they make one of the directive's two-digit alternatives, else
\* one digit when that is an alternative, else 0 (no match)
FieldWidth(d, s) ==
    LET two == Len(s) >= 2 /\ IsDigit(s[1]) /\ IsDigit(s[2])
        v2  == IF two THEN DigitsVal(SubSeq(s, 1, 2)) ELSE -1
        v1  == IF Len(s) >= 1 /\ IsDigit(s[1]) THEN DigitVal(s[1]) ELSE -1
    IN  CASE d = "m" -> IF two /\ v2 >= 1 /\ v2 <= 12 THEN 2 ELSE IF v1 >= 1 THEN 1 ELSE 0
          [] d = "d" -> IF two /\ v2 >= 1 /\ v2 <= 31 THEN 2 ELSE IF v1 >= 1 THEN 1 ELSE 0
          [] d = "H" -> IF two /\ v2 <= 23 THEN 2 ELSE IF v1 >= 0 THEN 1 ELSE 0
          [] d = "M" -> IF two /\ v2 <= 59 THEN 2 ELSE IF v1 >= 0 THEN 1 ELSE 0
          [] d = "S" -> IF two /\ v2 <= 61 THEN 2 ELSE IF v1 >= 0 THEN 1 ELSE 0
          [] OTHER -> 0

\* the number of leading digits of s, at most n
RECURSIVE DigitRun(_, _)
DigitRun(s, n) ==
    IF n = 0 \/ Len(s) = 0 \/ ~IsDigit(s[1]) THEN 0 ELSE 1 + DigitRun(Tail(s), n - 1)

\* the number of leading blanks of s
RECURSIVE BlankRun(_)
BlankRun(s) == IF Len(s) = 0 \/ s[1] # " " THEN 0 ELSE 1 + BlankRun(Tail(s))

FieldName(d) ==
    CASE d = "Y" -> "year" [] d = "m" -> "month" [] d = "d" -> "day"
      [] d = "H" -> "hour" [] d = "M" -> "minute" [] d = "S" -> "second"
      [] OTHER -> "microsecond"

\* the fields strptime starts from
StrptimeDefaults ==
    [year |-> 1900, month |-> 1, day |-> 1, hour |-> 0, minute |-> 0,
     second |-> 0, microsecond |-> 0]

\* the match of s against fmt, left to right, filling the fields f: "match"
\* with the fields, "mismatch", or "remains" (unconverted data).  The directives are
\* matched greedily, which is what the regular expression of strptime does
\* when the fields are separated by literals.
RECURSIVE StrptimeMatch(_, _, _)
StrptimeMatch(s, fmt, f) ==
    IF Len(fmt) = 0 THEN [st |-> IF Len(s) = 0 THEN "match" ELSE "remains", f |-> f]
    ELSE IF fmt[1] = "%" /\ Len(fmt) >= 2
         THEN LET d == fmt[2]
                  rest == SubSeq(fmt, 3, Len(fmt))
                  w == CASE d = "Y" -> IF DigitRun(s, 4) = 4 THEN 4 ELSE 0
                         [] d = "f" -> DigitRun(s, 6)
                         [] OTHER -> FieldWidth(d, s)
                  v == IF w = 0 THEN 0
                       ELSE IF d = "f" THEN DigitsVal(LJust(SubSeq(s, 1, w), 6, "0"))
                       ELSE DigitsVal(SubSeq(s, 1, w))
              IN  IF w = 0 THEN [st |-> "mismatch", f |-> f]
                  ELSE StrptimeMatch(SubSeq(s, w + 1, Len(s)), rest,
                                     [f EXCEPT ![FieldName(d)] = v])
         ELSE IF fmt[1] = " "
              THEN (IF BlankRun(s) = 0 THEN [st |-> "mismatch", f |-> f]
                    ELSE StrptimeMatch(SubSeq(s, BlankRun(s) + 1, Len(s)), Tail(fmt), f))
              ELSE IF Len(s) >= 1 /\ s[1] = fmt[1]
                   THEN StrptimeMatch(Tail(s), Tail(fmt), f)
                   ELSE [st |-> "mismatch", f |-> f]

\* datetime.strptime(time_string, python_format): a naive datetime, or ValueError
Strptime(time_string, python_format) ==
    LET r == StrptimeMatch(time_string, python_format, StrptimeDefaults)
        m == r.f
    IN  IF r.st = "mismatch"
        THEN Raise(<<"time data '">> \o time_string \o <<"' does not match format '">>
                       \o python_format \o <<"'">>)
        ELSE IF r.st = "remains" THEN Raise(<<"unconverted data remains">>)
        ELSE IF m.second > 59 THEN Raise(<<"second must be in 0..59">>)
        ELSE IF m.day > DaysInMonth(m.year, m.month)
             THEN Raise(<<"day is out of range for month">>)
        ELSE Ok(m)

\* the time string parse_datetime hands to strptime (lines 151 to 156)
AdjustFraction(time_string, format_str) ==
    IF Contains(format_str, SSS) /\ Contains(time_string, <<".">>)
    THEN LET parts == Split(time_string, ".")
         IN  IF Len(parts) = 2
             THEN parts[1] \o <<".">> \o LJust(Prefix(parts[2], 3), 6, "0")
             ELSE time_string
    ELSE time_string

\* parse_datetime(time_string, format_str)
parse_datetime(time_string, format_str) ==
    Strptime(AdjustFraction(time_string, format_str), PythonFormat(format_str))

---------------------------------------------------------------------------
(* argument values (JSON) and the arguments dict                            *)

IntV(q, r) == [t |-> "int", q |-> q, r |-> r]      \* the int 1000 * q + r

StrV(s) == [t |-> "str", s |-> s]

BoolV(b) == [t |-> "bool", b |-> b]

\* bool(v)
Truthy(v) ==
    CASE v.t = "bool" -> v.b
      [] v.t = "int" -> v.q # 0 \/ v.r # 0
      [] v.t = "str" -> Len(v.s) > 0
      [] OTHER -> FALSE

\* arguments.get(key, default)
Get(arguments, key, default) ==
    IF key \in DOMAIN arguments THEN arguments[key] ELSE default

\* datetime's range, years 1 to 9999, in epoch seconds
MinTimestamp == Wide(-62135597, 200)
MaxTimestamp == Wide(253402300, 799)

InDatetimeRange(w) == ~WideLess(w, MinTimestamp) /\ ~WideLess(MaxTimestamp, w)

\* one text content item
TextContent(text) == <<[type |-> "text", text |-> text]>>

\* what a call of handle_call_tool gives its caller
Return(result) == [raised |-> FALSE, result |-> result]

Propagate(msg) == [raised |-> TRUE, result |-> <<>>]

\* an except branch that lets the exception through
ExceptReraise(body) == IF body.ok THEN Return(TextContent(body.val)) ELSE Propagate(body.exc)

\* try: ... return [text] / except Exception as e: return [error text]
TryExcept(body) ==
    IF body.ok THEN Return(TextContent(body.val))
    ELSE Return(TextContent(ErrorPrefix \o body.exc))

---------------------------------------------------------------------------
(* handle_call_tool                                                         *)

\* the try body of get_current_time (lines 168 to 182)
GetCurrentTime(tz, now) ==
    LET dt == FromTimestamp(now.sec, now.micro, tz)
        formatted_time == format_datetime(dt, DEFAULT_FORMAT)
        timestamp == Timestamp(dt)
    IN  Ok(CurrentTimePrefix \o <<"ge", "shi", "hua", "shi", "jian", ":", " ">>
              \o formatted_time \o <<"\n", "shi", "jian", "chuo", ":", " ">>
              \o FloatRepr(timestamp) \o <<"\n", "shi", "qu", ":", " ">> \o <<tz>>)

\* a slip: the flag is ignored and the unit guessed from the magnitude
\* (a value of 10^8 or more is taken for milliseconds)
UnitFromMagnitude(timestamp, is_milliseconds) ==
    timestamp.t = "int" /\ timestamp.q >= 100000

\* whether timestamp_to_string divides by 1000 (line 195)
UnitIsMilliseconds(timestamp, is_milliseconds) == Truthy(is_milliseconds)

\* a slip: the timestamp is passed through float() first, so text is accepted
FromTimestampArgCoercing(timestamp, is_milliseconds, tz) ==
    LET number ==
            IF timestamp.t = "str"
               /\ Len(timestamp.s) > 0 /\ \A i \in 1..Len(timestamp.s) : IsDigit(timestamp.s[i])
            THEN IntV(DigitsVal(timestamp.s) \div 1000, DigitsVal(timestamp.s) % 1000)
            ELSE timestamp
    IN  IF number.t # "int" THEN Raise(<<"could not convert string to float">>)
        ELSE IF UnitIsMilliseconds(number, is_milliseconds)
             THEN Ok(FromTimestamp(number.q, number.r * 1000, tz))
             ELSE IF ~InDatetimeRange(Wide(number.q, number.r))
                  THEN Raise(<<"year is out of range">>)
                  ELSE Ok(FromTimestamp(1000 * number.q + number.r, 0, tz))

\* datetime.fromtimestamp of lines 196 and 198: the aware datetime, or the
\* TypeError of a timestamp that is no number, or the error of one out of range
FromTimestampArg(timestamp, is_milliseconds, tz) ==
    IF UnitIsMilliseconds(timestamp, is_milliseconds)
    THEN IF timestamp.t # "int"
         THEN Raise(<<"unsupported operand type(s) for /: 'str' and 'int'">>)
         ELSE Ok(FromTimestamp(timestamp.q, timestamp.r * 1000, tz))
    ELSE IF timestamp.t # "int"
         THEN Raise(<<"'str' object cannot be interpreted as an integer">>)
         ELSE IF ~InDatetimeRange(Wide(timestamp.q, timestamp.r))
              THEN Raise(<<"year is out of range">>)
              ELSE Ok(FromTimestamp(1000 * timestamp.q + timestamp.r, 0, tz))

\* the try body of timestamp_to_string (lines 190 to 203)
TimestampToString(arguments, tz) ==
    IF "timestamp" \notin DOMAIN arguments THEN Raise(<<"'timestamp'">>)
    ELSE LET timestamp == arguments["timestamp"]
             format_str == Get(arguments, "format", StrV(DEFAULT_FORMAT))
             is_milliseconds == Get(arguments, "is_milliseconds", BoolV(FALSE))
             dt == FromTimestampArg(timestamp, is_milliseconds, tz)
         IN  IF ~dt.ok THEN dt
             ELSE IF format_str.t # "str"
                  THEN Raise(<<"object has no attribute 'replace'">>)
                  ELSE Ok(ResultPrefix \o format_datetime(dt.val, format_str.s))

\* the try body of string_to_timestamp (lines 211 to 227)
StringToTimestamp(arguments, tz) ==
    IF "time_string" \notin DOMAIN arguments THEN Raise(<<"'time_string'">>)
    ELSE LET time_string == arguments["time_string"]
             format_str == Get(arguments, "format", StrV(DEFAULT_FORMAT))
             return_milliseconds == Get(arguments, "return_milliseconds", BoolV(FALSE))
         IN  IF format_str.t # "str" \/ time_string.t # "str"
             THEN Raise(<<"object has no attribute 'replace'">>)
             ELSE LET dt == parse_datetime(time_string.s, format_str.s)
                  IN  IF ~dt.ok THEN dt
                      ELSE LET timestamp == Timestamp(Localize(tz, dt.val))
                           IN  IF Truthy(return_milliseconds)
                               THEN Ok(ResultPrefix \o WideToStr(IntOfTimes1000(timestamp)))
                               ELSE Ok(ResultPrefix \o FloatRepr(timestamp))

\* a slip: an unknown tool name raises instead of being answered
handle_call_tool_raising(name, arguments, tz, now) ==
    CASE name = "get_current_time" -> TryExcept(GetCurrentTime(tz, now))
      [] name = "timestamp_to_string" -> TryExcept(TimestampToString(arguments, tz))
      [] name = "string_to_timestamp" -> TryExcept(StringToTimestamp(arguments, tz))
      [] OTHER -> Propagate(<<"Unknown tool: ", name>>)

\* handle_call_tool(name, arguments) with the clock reading now
handle_call_tool(name, arguments, tz, now) ==
    CASE name = "get_current_time" -> TryExcept(GetCurrentTime(tz, now))
      [] name = "timestamp_to_string" -> TryExcept(TimestampToString(arguments, tz))
      [] name = "string_to_timestamp" -> TryExcept(StringToTimestamp(arguments, tz))
      [] OTHER -> Return(TextContent(UnknownToolPrefix \o <<name>>))

---------------------------------------------------------------------------
(* set_timezone and main                                                    *)

\* pytz.timezone(timezone_name)
PytzTimezone(timezone_name) ==
    IF timezone_name \in TimezoneDatabase THEN Ok(timezone_name)
    ELSE Raise(<<"UnknownTimeZoneError">>)

\* a slip: an unknown identifier leaves the timezone as it was
set_timezone_keeping(timezone_name, current) ==
    LET z == PytzTimezone(timezone_name)
    IN  IF z.ok THEN [raised |-> FALSE, tz |-> z.val]
        ELSE [raised |-> FALSE, tz |-> current]

\* set_timezone(timezone_name): the new SERVER_TIMEZONE, and whether the call
\* raised
set_timezone(timezone_name, current) ==
    LET z == PytzTimezone(timezone_name)
    IN  IF z.ok THEN [raised |-> FALSE, tz |-> z.val]
        ELSE [raised |-> FALSE, tz |-> DefaultTimezone]

---------------------------------------------------------------------------
(* the inputs the model draws                                               *)

\* the longest run of fraction digits drawn for a time string
MaxFractionDigits == 4

\* the number of set_timezone calls of a run that calls it freely
MaxSetTimezoneCalls == 3

\* instants (epoch seconds): the epoch and the second after it, the second
\* before it, the leap day of 2000, the spec's example, and the two readings
\* of 01:30 on 1986-09-14 in Shanghai (daylight time, then standard time)
Instants == {0, 1, -1, 951782400, 1700000000, 527013000, 527016600}

Millis == {0, 1, 120, 999}

\* int timestamps: each instant in seconds, and in milliseconds
TimestampInts ==
    {IntV(s \div 1000, s % 1000) : s \in Instants}
        \cup {IntV(s, ms) : s \in Instants, ms \in Millis}

\* text timestamps: two that float() parses, one that it does not
TimestampTexts ==
    {StrV(<<"1", "7", "0", "0", "0", "0", "0", "0", "0", "0">>), StrV(<<"0">>),
     StrV(<<"a", "b", "c">>)}

\* readings of the clock
Clock ==
    {[sec |-> 0, micro |-> 0], [sec |-> 1700000000, micro |-> 123456],
     [sec |-> 1700000000, micro |-> 999999], [sec |-> 527013000, micro |-> 500],
     [sec |-> -1, micro |-> 999000], [sec |-> 951782400, micro |-> 1000]}

FormatNoFraction ==
    <<"y", "y", "y", "y", "-", "M", "M", "-", "d", "d", " ",
      "H", "H", ":", "m", "m", ":", "s", "s">>

FormatDotted ==
    <<"y", "y", "y", "y", ".", "M", "M", ".", "d", "d", " ",
      "H", "H", ":", "m", "m", ":", "s", "s", ".", "S", "S", "S">>

FormatYearLast ==
    <<"H", "H", ":", "m", "m", ":", "s", "s", ".", "S", "S", "S", " ",
      "y", "y", "y", "y">>

FormatNoPoint == <<"y", "y", "y", "y", "/", "M", "M", "/", "d", "d", " ", "S", "S", "S">>

FormatDateOnly == <<"y", "y", "y", "y", "-", "M", "M", "-", "d", "d">>

\* a key an arguments dict lacks
Absent == [t |-> "absent"]

\* the dict holding the keys of full that are not Absent
Dict(full) == [k \in {k \in DOMAIN full : full[k] # Absent} |-> full[k]]

TimestampToStringArguments ==
    {Dict(f) : f \in [timestamp : TimestampInts \cup TimestampTexts \cup {Absent},
                      format : {Absent, StrV(FormatNoFraction), StrV(FormatDotted)},
                      is_milliseconds : {Absent, BoolV(TRUE), BoolV(FALSE)}]}

\* digit runs of 1 to MaxFractionDigits digits
FractionRuns ==
    {SubSeq(<<"1", "2", "3", "4", "5", "6", "7">>, 1, n) : n \in 1..MaxFractionDigits}
        \cup {<<"5">>, <<"0", "0", "0">>, <<"0", "0", "1">>}

Seconds2023 ==
    <<"2", "0", "2", "3", "-", "1", "1", "-", "1", "5", " ",
      "0", "6", ":", "1", "3", ":", "2", "0">>

Seconds2023Dotted ==
    <<"2", "0", "2", "3", ".", "1", "1", ".", "1", "5", " ",
      "0", "6", ":", "1", "3", ":", "2", "0">>

\* 01:30 on 1986-09-14 (twice on Shanghai's clocks), 02:30 on 1986-05-04
\* (never on them), the first second of 1970 and 30 February
SecondsTwice ==
    <<"1", "9", "8", "6", "-", "0", "9", "-", "1", "4", " ",
      "0", "1", ":", "3", "0", ":", "0", "0", ".", "0", "0", "0">>

SecondsNever ==
    <<"1", "9", "8", "6", "-", "0", "5", "-", "0", "4", " ",
      "0", "2", ":", "3", "0", ":", "0", "0", ".", "0", "0", "0">>

Seconds1970 ==
    <<"1", "9", "7", "0", "-", "0", "1", "-", "0", "1", " ",
      "0", "8", ":", "0", "0", ":", "0", "1", ".", "0", "0", "1">>

SecondsFeb30 ==
    <<"2", "0", "2", "3", "-", "0", "2", "-", "3", "0", " ",
      "0", "0", ":", "0", "0", ":", "0", "0", ".", "0", "0", "0">>

TimeStrings ==
    {Seconds2023 \o <<".">> \o f : f \in FractionRuns}
        \cup {Seconds2023Dotted \o <<".">> \o f : f \in FractionRuns}
        \cup {Seconds2023, Seconds2023 \o <<".">>, SecondsTwice, SecondsNever,
              Seconds1970, SecondsFeb30, <<"a", "b", "c">>}

StringToTimestampArguments ==
    {Dict(f) : f \in [time_string : {StrV(t) : t \in TimeStrings} \cup {Absent},
                      format : {Absent, StrV(FormatNoFraction), StrV(FormatDotted)},
                      return_milliseconds : {Absent, BoolV(TRUE), BoolV(FALSE)}]}

KnownTools == {"get_current_time", "timestamp_to_string", "string_to_timestamp"}

UnknownTools == {"convert_time", "set_timezone", ""}

\* arguments of calls whose tool does not read them
OtherArguments ==
    {Dict([timestamp |-> Absent]), Dict([timestamp |-> StrV(<<"a", "b", "c">>)]),
     Dict([timestamp |-> IntV(0, 0)])}

ArgumentsOf(name) ==
    CASE name = "timestamp_to_string" -> TimestampToStringArguments
      [] name = "string_to_timestamp" -> StringToTimestampArguments
      [] OTHER -> OtherArguments

\* the clock is read by get_current_time alone
NotRead == [sec |-> 0, micro |-> 0]

ClockOf(name) == IF name = "get_current_time" THEN Clock ELSE {NotRead}

\* startup parameters: valid and unknown identifiers, and the empty string
\* (falsy, as None is)
TimezoneNames == TimezoneDatabase \cup UnknownIdentifiers \cup {""}

---------------------------------------------------------------------------
(* the process: main, then the dispatch loop                                *)

NoOrigin == [fn |-> "none"]

Init ==
    /\ pc = "start"
    /\ SERVER_TIMEZONE = DefaultTimezone
    /\ tzWrites = 0
    /\ call = [fn |-> "none"]

\* main(timezone_name), up to the start of the server (lines 239 to 245)
Main(timezone_name) ==
    /\ pc = "start"
    /\ IF Len(timezone_name) > 0
       THEN LET r == set_timezone(timezone_name, SERVER_TIMEZONE)
            IN  /\ SERVER_TIMEZONE' = r.tz
                /\ tzWrites' = tzWrites + 1
                /\ pc' = IF r.raised THEN "crashed" ELSE "serving"
       ELSE /\ pc' = "serving"
            /\ UNCHANGED <<SERVER_TIMEZONE, tzWrites>>
    /\ call' = [fn |-> "main", timezone_name |-> timezone_name]

\* the transport delivers a tool invocation (server.run, line 246)
Receive(name, arguments) ==
    /\ pc = "serving"
    /\ call.fn # "request"
    /\ call' = [fn |-> "request", name |-> name, arguments |-> arguments,
                origin |-> NoOrigin]
    /\ UNCHANGED <<pc, SERVER_TIMEZONE, tzWrites>>

\* the text of the last call's response, without the result prefix
Payload ==
    LET text == call.result[1].text
    IN  SubSeq(text, Len(ResultPrefix) + 1, Len(text))

\* a client feeds the string timestamp_to_string returned, and the pattern
\* it was made with, to string_to_timestamp
ReceiveRoundTrip(return_milliseconds) ==
    /\ pc = "serving"
    /\ call.fn = "handle_call_tool"
    /\ call.name = "timestamp_to_string"
    /\ ~call.raised
    /\ StartsWith(call.result[1].text, ResultPrefix)
    /\ call' = [fn |-> "request", name |-> "string_to_timestamp",
                arguments |->
                    Dict([time_string |-> StrV(Payload),
                          format |-> Get(call.arguments, "format", Absent),
                          return_milliseconds |-> return_milliseconds]),
                origin |-> call.arguments]
    /\ UNCHANGED <<pc, SERVER_TIMEZONE, tzWrites>>

\* a slip: the handler resets the process-wide timezone while it works
HandleCallToolWritingTimezone(now) ==
    /\ pc = "serving"
    /\ call.fn = "request"
    /\ now \in ClockOf(call.name)
    /\ LET r == handle_call_tool(call.name, call.arguments, SERVER_TIMEZONE, now)
       IN  call' = [fn |-> "handle_call_tool", name |-> call.name,
                    arguments |-> call.arguments, now |-> now,
                    raised |-> r.raised, result |-> r.result,
                    origin |-> call.origin]
    /\ SERVER_TIMEZONE' = DefaultTimezone
    /\ tzWrites' = tzWrites + 1
    /\ UNCHANGED pc

\* handle_call_tool runs on the delivered invocation, reading the clock as now
HandleCallTool(now) ==
    /\ pc = "serving"
    /\ call.fn = "request"
    /\ now \in ClockOf(call.name)
    /\ LET r == handle_call_tool(call.name, call.arguments, SERVER_TIMEZONE, now)
       IN  call' = [fn |-> "handle_call_tool", name |-> call.name,
                    arguments |-> call.arguments, now |-> now,
                    raised |-> r.raised, result |-> r.result,
                    origin |-> call.origin]
    /\ UNCHANGED <<pc, SERVER_TIMEZONE, tzWrites>>

Next ==
    \/ \E timezone_name \in TimezoneNames : Main(timezone_name)
    \/ \E name \in KnownTools \cup UnknownTools :
          \E arguments \in ArgumentsOf(name) : Receive(name, arguments)
    \/ \E return_milliseconds \in {Absent, BoolV(TRUE), BoolV(FALSE)} :
          ReceiveRoundTrip(return_milliseconds)
    \/ \E now \in Clock \cup {NotRead} : HandleCallTool(now)

Spec == Init /\ [][Next]_vars

---------------------------------------------------------------------------
(* set_timezone called freely, between readings of the current time         *)

\* a call of set_timezone(timezone_name) from anywhere
SetTimezoneCall(timezone_name) ==
    /\ tzWrites < MaxSetTimezoneCalls
    /\ LET r == set_timezone(timezone_name, SERVER_TIMEZONE)
       IN  /\ SERVER_TIMEZONE' = r.tz
           /\ call' = [fn |-> "set_timezone", timezone_name |-> timezone_name,
                       previous |-> SERVER_TIMEZONE, raised |-> r.raised]
    /\ tzWrites' = tzWrites + 1
    /\ UNCHANGED pc

NextTimezone ==
    \/ \E timezone_name \in TimezoneNames : Main(timezone_name)
    \/ \E timezone_name \in TimezoneNames : SetTimezoneCall(timezone_name)
    \/ \E arguments \in OtherArguments : Receive("get_current_time", arguments)
    \/ \E now \in Clock : HandleCallTool(now)

SpecTimezone == Init /\ [][NextTimezone]_vars

---------------------------------------------------------------------------
(* format_datetime and parse_datetime on their own                          *)

FormatDatetimes ==
    {FromTimestamp(c.sec, c.micro, tz) : c \in Clock, tz \in TimezoneDatabase}

FormatPatterns ==
    {DEFAULT_FORMAT, FormatNoFraction, FormatDotted, FormatYearLast, FormatNoPoint,
     FormatDateOnly}

InitFormat ==
    /\ pc = "start"
    /\ SERVER_TIMEZONE = DefaultTimezone
    /\ tzWrites = 0
    /\ call \in {[fn |-> "input", dt |-> dt, format_str |-> f] :
                    dt \in FormatDatetimes, f \in FormatPatterns}

ApplyFormat ==
    /\ call.fn = "input"
    /\ call' = [fn |-> "format_datetime", dt |-> call.dt, format_str |-> call.format_str,
                ret |-> format_datetime(call.dt, call.format_str)]
    /\ UNCHANGED <<pc, SERVER_TIMEZONE, tzWrites>>

SpecFormat == InitFormat /\ [][ApplyFormat]_vars

ParsePatterns == {DEFAULT_FORMAT, FormatNoFraction, FormatDotted}

InitParse ==
    /\ pc = "start"
    /\ SERVER_TIMEZONE = DefaultTimezone
    /\ tzWrites = 0
    /\ call \in {[fn |-> "input", time_string |-> t, format_str |-> f] :
                    t \in TimeStrings, f \in ParsePatterns}

ApplyParse ==
    /\ call.fn = "input"
    /\ call' = [fn |-> "parse_datetime", time_string |-> call.time_string,
                format_str |-> call.format_str,
                ret |-> parse_datetime(call.time_string, call.format_str)]
    /\ UNCHANGED <<pc, SERVER_TIMEZONE, tzWrites>>

SpecParse == InitParse /\ [][ApplyParse]_vars

---------------------------------------------------------------------------
(* properties                                                               *)

\* the last step was a run of handle_call_tool on the tool name
Handled(name) == call.fn = "handle_call_tool" /\ call.name = name

\* the caller got a list of exactly one text item, and no exception
OneTextItem ==
    ~call.raised /\ Len(call.result) = 1 /\ call.result[1].type = "text"

ResponseText == call.result[1].text

AllDigits(s) == Len(s) > 0 /\ \A i \in 1..Len(s) : IsDigit(s[i])

\* whether the handling of the last call failed: the try body of its tool
\* raised
HandlingFailed ==
    CASE call.name = "timestamp_to_string" ->
            ~TimestampToString(call.arguments, SERVER_TIMEZONE).ok
      [] call.name = "string_to_timestamp" ->
            ~StringToTimestamp(call.arguments, SERVER_TIMEZONE).ok
      [] OTHER -> ~GetCurrentTime(SERVER_TIMEZONE, call.now).ok

\* the failures C1 lists, read off the arguments of the last call
ListedFailure ==
    \/ /\ call.name = "timestamp_to_string"
       /\ \/ "timestamp" \notin DOMAIN call.arguments
          \/ call.arguments["timestamp"].t # "int"
          \/ /\ ~Truthy(Get(call.arguments, "is_milliseconds", BoolV(FALSE)))
             /\ ~InDatetimeRange(Wide(call.arguments["timestamp"].q,
                                      call.arguments["timestamp"].r))
    \/ /\ call.name = "string_to_timestamp"
       /\ \/ "time_string" \notin DOMAIN call.arguments
          \/ ~parse_datetime(call.arguments["time_string"].s,
                             Get(call.arguments, "format", StrV(DEFAULT_FORMAT)).s).ok

\* C1: a call of handle_call_tool with a known tool name never lets an
\* exception through and returns exactly one text item; the text starts with
\* the error prefix when the handling failed (a required argument missing, a
\* timestamp that is no number or out of range, a time string that does not
\* match the pattern), and only then.
C1_FailureIsErrorText ==
    (call.fn = "handle_call_tool" /\ call.name \in KnownTools) =>
        /\ OneTextItem
        /\ HandlingFailed <=> StartsWith(ResponseText, ErrorPrefix)
        /\ ListedFailure => StartsWith(ResponseText, ErrorPrefix)
        /\ ~StartsWith(ResponseText, ErrorPrefix) =>
              \/ StartsWith(ResponseText, ResultPrefix)
              \/ StartsWith(ResponseText, CurrentTimePrefix)

\* a time string that does not match its pattern was answered with an error text
C1_Witness ==
    /\ Handled("string_to_timestamp")
    /\ "time_string" \in DOMAIN call.arguments
    /\ call.arguments["time_string"] = StrV(<<"a", "b", "c">>)
    /\ OneTextItem
    /\ StartsWith(ResponseText, ErrorPrefix)

\* C2: a call with a tool name that is not registered never raises and
\* returns exactly one text item whose text holds the name, whatever the
\* arguments (the answer is the one an empty dict gets), and the dispatcher
\* is ready for the next call.
C2_UnknownToolIsAnswered ==
    (call.fn = "handle_call_tool" /\ call.name \notin KnownTools) =>
        /\ OneTextItem
        /\ Contains(ResponseText, <<call.name>>)
        /\ ~StartsWith(ResponseText, ErrorPrefix)
        /\ call.result = handle_call_tool(call.name, <<>>, SERVER_TIMEZONE, call.now).result
        /\ pc = "serving"

\* an unknown tool called with arguments got its text
C2_Witness ==
    /\ Handled("convert_time")
    /\ "timestamp" \in DOMAIN call.arguments
    /\ OneTextItem
    /\ Contains(ResponseText, <<"convert_time">>)

\* C3: the active timezone is always an entry of the timezone database; a
\* set_timezone call returns normally, an identifier of the database becomes
\* the active timezone and any other leaves it equal to the default.
C3_TimezoneAlwaysValid ==
    /\ SERVER_TIMEZONE \in TimezoneDatabase
    /\ call.fn = "set_timezone" =>
          /\ ~call.raised
          /\ SERVER_TIMEZONE =
                IF call.timezone_name \in TimezoneDatabase THEN call.timezone_name
                ELSE DefaultTimezone

\* an unknown identifier was set while another zone than the default was active
C3_Witness ==
    /\ call.fn = "set_timezone"
    /\ call.timezone_name = "Not/AZone"
    /\ call.previous = "Asia/Tokyo"
    /\ SERVER_TIMEZONE = DefaultTimezone

\* C4: the active timezone is assigned at most once after its
\* initialisation, by main on its way to the dispatch loop, and no step of
\* the dispatch loop changes it.
C4_TimezoneWrittenOnceByMain ==
    [][/\ tzWrites' <= 1
       /\ (SERVER_TIMEZONE' # SERVER_TIMEZONE \/ tzWrites' # tzWrites) =>
             pc = "start" /\ call'.fn = "main"
       /\ pc = "serving" => SERVER_TIMEZONE' = SERVER_TIMEZONE]_vars

\* a tool was handled after main had set another timezone than the default
C4_Witness ==
    /\ pc = "serving"
    /\ call.fn = "handle_call_tool"
    /\ tzWrites = 1
    /\ SERVER_TIMEZONE = "Asia/Tokyo"

\* the last call was string_to_timestamp on the string that
\* timestamp_to_string made of an int of milliseconds, both with the default
\* pattern and the millisecond unit
RoundTripDone ==
    /\ Handled("string_to_timestamp")
    /\ "timestamp" \in DOMAIN call.origin
    /\ call.origin["timestamp"].t = "int"
    /\ "format" \notin DOMAIN call.origin
    /\ Get(call.origin, "is_milliseconds", BoolV(FALSE)) = BoolV(TRUE)
    /\ Get(call.arguments, "return_milliseconds", BoolV(FALSE)) = BoolV(TRUE)

\* C5: timestamp_to_string of an int m of milliseconds, then
\* string_to_timestamp of the resulting string, both with the default pattern
\* and the millisecond unit, gives m back.
C5_RoundTripIsIdentity ==
    RoundTripDone =>
        /\ OneTextItem
        /\ ResponseText =
              ResultPrefix \o WideToStr(Wide(call.origin["timestamp"].q,
                                             call.origin["timestamp"].r))

\* the fraction of a time string: what follows its last point
Fraction(time_string) ==
    SubSeq(time_string, RFind(time_string, ".") + 2, Len(time_string))

\* C6: with SSS in the pattern and a point in the input, parse_datetime
\* reads the digits after the point as a fraction of a second cut to
\* milliseconds (its first 3 digits, padded on the right with zeros);
\* otherwise the input is parsed as it is.
C6_FractionCutToMilliseconds ==
    call.fn = "parse_datetime" =>
        IF Contains(call.format_str, SSS) /\ Contains(call.time_string, <<".">>)
        THEN (call.ret.ok /\ AllDigits(Fraction(call.time_string))) =>
                call.ret.val.microsecond =
                    1000 * DigitsVal(LJust(Prefix(Fraction(call.time_string), 3), 3, "0"))
        ELSE call.ret = Strptime(call.time_string, PythonFormat(call.format_str))

\* C7: format_datetime with the default pattern ends with a point and
\* exactly 3 digits, the first 3 of the 6 microsecond digits, after the
\* seconds of the datetime itself (nothing is rounded or carried).
C7_ThreeFractionDigits ==
    (call.fn = "format_datetime" /\ call.format_str = DEFAULT_FORMAT) =>
        LET i == RFind(call.ret, ".")
        IN  /\ i >= 0
            /\ Len(call.ret) = i + 4
            /\ SubSeq(call.ret, i + 2, i + 4) = ZeroPad(call.dt.microsecond \div 1000, 3)
            /\ SubSeq(call.ret, 1, i) = Strftime(call.dt, PythonFormat(FormatNoFraction))

\* a datetime with 999999 microseconds was formatted with the default pattern
C7_Witness ==
    /\ call.fn = "format_datetime"
    /\ call.format_str = DEFAULT_FORMAT
    /\ call.dt.microsecond = 999999
    /\ SubSeq(call.ret, Len(call.ret) - 3, Len(call.ret)) = <<".", "9", "9", "9">>

\* the timestamp of the last timestamp_to_string call, an int
IntTimestampCall ==
    /\ Handled("timestamp_to_string")
    /\ "timestamp" \in DOMAIN call.arguments
    /\ call.arguments["timestamp"].t = "int"

\* the arguments of the last call with timestamp and is_milliseconds replaced
WithUnit(timestamp, is_milliseconds) ==
    [k \in DOMAIN call.arguments \cup {"timestamp", "is_milliseconds"} |->
        IF k = "timestamp" THEN timestamp
        ELSE IF k = "is_milliseconds" THEN is_milliseconds
        ELSE call.arguments[k]]

\* C8: timestamp_to_string takes the unit from is_milliseconds alone
\* (seconds when absent or false): 1000 * s with the flag gives what s gives
\* without it, an absent flag is a false one, and a value too large for a
\* count of seconds is refused without the flag rather than read as
\* milliseconds.
C8_UnitFromFlagOnly ==
    IntTimestampCall =>
        LET ts == call.arguments["timestamp"]
            flag == Get(call.arguments, "is_milliseconds", BoolV(FALSE))
        IN  /\ (flag = BoolV(TRUE) /\ ts.r = 0) =>
                  call.result =
                      handle_call_tool(call.name,
                          WithUnit(IntV(ts.q \div 1000, ts.q % 1000), BoolV(FALSE)),
                          SERVER_TIMEZONE, call.now).result
            /\ "is_milliseconds" \notin DOMAIN call.arguments =>
                  call.result =
                      handle_call_tool(call.name, WithUnit(ts, BoolV(FALSE)),
                                       SERVER_TIMEZONE, call.now).result
            /\ (flag = BoolV(FALSE) /\ ~InDatetimeRange(Wide(ts.q, ts.r))) =>
                  StartsWith(ResponseText, ErrorPrefix)

\* 1700000000000 milliseconds were converted with the flag set
C8_Witness ==
    /\ IntTimestampCall
    /\ call.arguments["timestamp"] = IntV(1700000000, 0)
    /\ Get(call.arguments, "is_milliseconds", BoolV(FALSE)) = BoolV(TRUE)
    /\ StartsWith(ResponseText, ResultPrefix)

\* the last call was timestamp_to_string with a text timestamp
TextTimestampCall ==
    /\ Handled("timestamp_to_string")
    /\ "timestamp" \in DOMAIN call.arguments
    /\ call.arguments["timestamp"].t = "str"

\* C9 as stated: a text timestamp that parses as a number gives the string
\* the number itself gives, and one that does not parse gives an error text.
C9_TextTimestampConverted ==
    TextTimestampCall =>
        LET text == call.arguments["timestamp"].s
        IN  IF AllDigits(text)
            THEN call.result =
                    handle_call_tool(call.name,
                        WithUnit(IntV(DigitsVal(text) \div 1000, DigitsVal(text) % 1000),
                                 Get(call.arguments, "is_milliseconds", BoolV(FALSE))),
                        SERVER_TIMEZONE, call.now).result
            ELSE OneTextItem /\ StartsWith(ResponseText, ErrorPrefix)

\* C9 amended: timestamp_to_string converts a timestamp given as a number;
\* given as text, whether or not the text parses as a number, it answers
\* with an error text rather than a crash.
C9_TextTimestampRejected ==
    /\ TextTimestampCall => OneTextItem /\ StartsWith(ResponseText, ErrorPrefix)
    /\ (IntTimestampCall /\ ~StartsWith(ResponseText, ErrorPrefix)) =>
          OneTextItem /\ StartsWith(ResponseText, ResultPrefix)
    /\ (IntTimestampCall
          /\ Truthy(Get(call.arguments, "is_milliseconds", BoolV(FALSE)))) =>
          StartsWith(ResponseText, ResultPrefix)

\* the text "1700000000" was refused
C9_Witness ==
    /\ TextTimestampCall
    /\ AllDigits(call.arguments["timestamp"].s)
    /\ Len(call.arguments["timestamp"].s) = 10
    /\ StartsWith(ResponseText, ErrorPrefix)

\* the rendering of python_format in which %f gives the first 3 of its 6 digits
RECURSIVE RenderMillis(_, _)
RenderMillis(dt, fmt) ==
    IF Len(fmt) = 0 THEN <<>>
    ELSE IF Len(fmt) >= 2 /\ fmt[1] = "%"
         THEN (IF fmt[2] = "f" THEN ZeroPad(dt.microsecond \div 1000, 3)
               ELSE Strftime(dt, SubSeq(fmt, 1, 2)))
              \o RenderMillis(dt, SubSeq(fmt, 3, Len(fmt)))
         ELSE <<fmt[1]>> \o RenderMillis(dt, Tail(fmt))

\* C10: for a pattern with SSS, format_datetime returns the whole rendering
\* of the pattern with only digits 4 to 6 of the fraction removed.
C10_OnlyFractionDigitsRemoved ==
    (call.fn = "format_datetime" /\ Contains(call.format_str, SSS)) =>
        call.ret = RenderMillis(call.dt, PythonFormat(call.format_str))

=============================================================================
